---- MODULE Spec2Model ----
(***************************************************************************)
(* ebpflow.py: the user-space consumer of the TCP accept/connect events.   *)
(*                                                                         *)
(* The main thread runs `while RUNNING: bpf.perf_buffer_poll(timeout=50)`  *)
(* and, once the loop has exited, prints str(estats).  A poll call hands   *)
(* every raw record it took from the buffer to print_ipv4_event, which     *)
(* casts it to kernel_data, counts it with estats.add and prints it.  The  *)
(* callback runs in a delivery context; NumCtx of them may be active in    *)
(* one poll call, and a poll call returns once all its records have been   *)
(* handled.  SIGINT runs signal_handler between any two steps.  An         *)
(* exception raised in the callback does not reach the run loop: the       *)
(* callback is called from C through ctypes, which reports it and returns. *)
(***************************************************************************)
EXTENDS Integers, Sequences, FiniteSets

\* ----- bounds of the model -----
NumCtx == 2        \* delivery contexts that may run the callback at once
MaxRecords == 2    \* records the event source produces during the run
MaxBatch == 2      \* records one poll call takes from the buffer
MaxCount == 3      \* largest counter value str(estats) is rendered with
MaxRenders == 2    \* renderings of the same Events_Statics

\* ----- program constants -----
ACCEPT == 601      \* _etype_table key of 'TCP/ACC'
CONNECT == 602     \* _etype_table key of 'TCP/CONN'
UNKNOWN == ACCEPT - 1   \* a representative etype that is not in _etype_table
TASK_COMM_LEN == 16
CGROUP_NAME == 64

\* the ctypes layout of the structures: sizes and offsets in bytes
TASK_INFO_SIZE == 4 + 4 + 4 + CGROUP_NAME + TASK_COMM_LEN
NET_INFO4_SIZE == 2 + 2 + 4 + 4
ETYPE_OFFSET == 8 + 8 + TASK_INFO_SIZE + TASK_INFO_SIZE
ETYPE_END == ETYPE_OFFSET + 4
SIZEOF_KERNEL_DATA == ETYPE_END + NET_INFO4_SIZE

\* raw sizes the callback may be told besides sizeof(kernel_data): a buffer
\* that ends right before the etype field, and one with trailing padding
SHORT_SIZE == ETYPE_OFFSET
LONG_SIZE == SIZEOF_KERNEL_DATA + 4

Ctx == 1..NumCtx
ETypes == {ACCEPT, CONNECT, UNKNOWN}
NoEtype == 0

\* The raw records the event source may deliver: the size the callback is
\* told, and the value in the etype field (absent when the buffer ends
\* before that field).  Records of the size of kernel_data carry any etype;
\* the padded record carries a connect.
Records ==
  [size : {SIZEOF_KERNEL_DATA}, etype : ETypes]
    \cup {[size |-> SHORT_SIZE, etype |-> NoEtype],
          [size |-> LONG_SIZE, etype |-> CONNECT]}
NoRecord == [size |-> 0, etype |-> NoEtype]

\* The two AtomicInteger objects Events_Statics.__init__ creates.
Objects == {"obj_connect", "obj_accept"}
NoObject == "none"
Free == 0
Main == NumCtx + 1

VARIABLES
  RUNNING,     \* the module global RUNNING
  pc,          \* position of the main thread
  batch,       \* records of the poll call in flight not yet handed over
  polled,      \* records taken from the buffer by all poll calls so far
  cpc,         \* position of each delivery context in print_ipv4_event
  data,        \* the raw record (data, size) each callback was called with
  event,       \* event.etype of each callback after the cast
  ref,         \* the AtomicInteger an add call loaded from its attribute
  tval,        \* the m_value an add call read and is about to write back
  estats,      \* attributes of estats: name -> AtomicInteger object
  m_value,     \* AtomicInteger.m_value, per object
  m_lock,      \* AtomicInteger.m_lock, per object: Free or its holder
  conn,        \* local `conn` of Events_Statics.__str__
  acpt,        \* local `acpt` of Events_Statics.__str__
  out,         \* what has been printed on standard output, in order
  calls,       \* callback invocations so far, per etype seen after the cast
  stop,        \* where the first signal found the loop: "no" signal yet,
               \* "midpoll" (a poll call in flight with records pending) or
               \* "between"
  NO_TRUNC,    \* the module global NO_TRUNC (args.no_trunc)
  fevent,      \* a kernel_data structure with all the fields __str__ reads
  ftext        \* what str(fevent) returned, <<>> before the call

vars == <<RUNNING, pc, batch, polled, cpc, data, event, ref, tval,
          estats, m_value, m_lock, conn, acpt, out, calls, stop,
          NO_TRUNC, fevent, ftext>>

fmtVars == <<NO_TRUNC, fevent, ftext>>

mainVars == <<pc, batch, polled, conn, acpt>>
ctxVars == <<cpc, data, event, ref, tval>>
objVars == <<estats, m_value, m_lock>>

\* ----- pure functions -----

\* kernel_data._etype_table
etype_table == [e \in {ACCEPT, CONNECT} |->
                  IF e = ACCEPT THEN "TCP/ACC" ELSE "TCP/CONN"]

\* kernel_data.etype2str: raises KeyError for a key outside the table
etype2str_raises(e) == e \notin DOMAIN etype_table
etype2str(e) == etype_table[e]

\* the lines __str__ joins for an event whose cgroup is "/"
BlockLines == <<"task", "parent", "netinfo">>

\* kernel_data.__str__: the block of one event (its netinfo label and the
\* lines it is made of), one string
kernel_data_str(e) ==
  [kind |-> "event", label |-> etype2str(e), lines |-> BlockLines]

\* add with the two branches exchanged
add_attr_exchanged(e) ==
  IF e = ACCEPT THEN "connect_counter" ELSE "accept_counter"

\* Events_Statics.add: the attribute `self.<name> += 1` is applied to
add_attr(e) == IF e = ACCEPT THEN "accept_counter" ELSE "connect_counter"

\* __str__ with the last two format arguments exchanged
Events_Statics_str_exchanged(c, a) ==
  [kind |-> "summary",
   fields |-> << <<"tot", c + a>>, <<"accpt", a>>, <<"conn", c>> >>]

\* Events_Statics.__str__: line % (conn + acpt, conn, acpt) fills, in this
\* order, the values after 'tot:', 'accpt:' and 'conn:'
Events_Statics_str(c, a) ==
  [kind |-> "summary",
   fields |-> << <<"tot", c + a>>, <<"accpt", c>>, <<"conn", a>> >>]

\* AtomicInteger.get's result for the counter an attribute names
Value(name) == m_value[estats[name]]

\* ctypes cast: the etype the callback sees.  A buffer that ends before the
\* etype field makes the read run past the buffer: any value may be there.
CastEtypes(r) == IF r.size >= ETYPE_END THEN {r.etype} ELSE ETypes

\* the positions of a delivery context inside Events_Statics.add
InAdd(c) == cpc[c] \in {"lock", "read", "write", "unlock", "store"}

\* ----- kernel_data.__str__ in full -----
\* a cgroup or task name as ctypes hands it over: the characters before the
\* first NUL
ROOT == <<"/">>
ID16 == <<"a", "b", "c", "d", "e", "f", "0", "1", "2", "3",
          "4", "5", "6", "7", "8", "9">>
TRUNC_LEN == 12

\* s[:n]
Slice(s, n) == SubSeq(s, 1, IF Len(s) < n THEN Len(s) ELSE n)

\* socket.ntohs on a little-endian host: the two bytes of a c_uint16 swapped
ntohs(x) == (x % 256) * 256 + (x \div 256)

\* inet_ntop(AF_INET, pack("I", v)): the four bytes of v in memory order
\* (lowest first on a little-endian host), as a dotted quad
inet_ntop(v) ==
  <<v % 256, (v \div 256) % 256, (v \div 65536) % 256, v \div 16777216>>

\* the identifier the container line shows
dockerid(cgroup, no_trunc) ==
  IF no_trunc THEN cgroup ELSE Slice(cgroup, TRUNC_LEN)

\* __str__ with the container line appended unconditionally
kernel_data_lines_always(e, no_trunc) ==
  << [fmt |-> "_ltask",
      args |-> <<e.ktime, e.task.gid, e.task.uid, e.task.pid, e.task.task>>],
     [fmt |-> "_lparent",
      args |-> <<e.ptask.gid, e.ptask.uid, e.ptask.pid, e.ptask.task>>],
     [fmt |-> "_lnetinfo",
      args |-> <<etype2str(e.etype),
                 inet_ntop(e.net4.saddr), e.net4.loc_port,
                 inet_ntop(e.net4.daddr), e.net4.dst_port>>],
     [fmt |-> "_lcgroup", args |-> <<dockerid(e.task.cgroup, no_trunc)>>] >>

\* kernel_data.__str__: the list `lines`; '\n|__'.join(lines) makes each
\* element one line of the text returned, no argument holding a newline
kernel_data_lines(e, no_trunc) ==
  << [fmt |-> "_ltask",
      args |-> <<e.ktime, e.task.gid, e.task.uid, e.task.pid, e.task.task>>],
     [fmt |-> "_lparent",
      args |-> <<e.ptask.gid, e.ptask.uid, e.ptask.pid, e.ptask.task>>],
     [fmt |-> "_lnetinfo",
      args |-> <<etype2str(e.etype),
                 inet_ntop(e.net4.saddr), e.net4.loc_port,
                 inet_ntop(e.net4.daddr), e.net4.dst_port>>] >>
  \o (IF e.task.cgroup # ROOT
        THEN << [fmt |-> "_lcgroup",
                 args |-> <<dockerid(e.task.cgroup, no_trunc)>>] >>
        ELSE <<>>)

\* the events __str__ is applied to: cgroups at, below and above the
\* truncation length, ports in both byte orders
FmtCgroups ==
  {ROOT, ID16, Slice(ID16, TRUNC_LEN), Slice(ID16, TRUNC_LEN + 1),
   Slice(ID16, 2), ROOT \o Slice(ID16, 3)}
FmtPorts == {8080, ntohs(8080), 80, ntohs(80), 443}
ADDR_LOCAL == 10 * 16777216 + 1 * 65536 + 168 * 256 + 192
ADDR_REMOTE == 1 * 16777216 + 127
FmtEvents ==
  [ktime : {1000},
   task : [gid : {0}, uid : {1000}, pid : {4242}, cgroup : FmtCgroups,
           task : {"curl"}],
   ptask : [gid : {0}, uid : {1000}, pid : {4000}, cgroup : {ROOT},
            task : {"bash"}],
   etype : {ACCEPT, CONNECT},
   net4 : [loc_port : FmtPorts, dst_port : {ntohs(443), 443},
           saddr : {ADDR_LOCAL}, daddr : {ADDR_REMOTE}]]
NoEvent == [etype |-> NoEtype]

\* no event is being formatted
FmtIdle ==
  /\ NO_TRUNC = FALSE
  /\ fevent = NoEvent
  /\ ftext = <<>>

SeqsUpTo(S, n) == UNION {[1..k -> S] : k \in 0..n}

Sum3(f) == f[ACCEPT] + f[CONNECT] + f[UNKNOWN]

Init ==
  /\ RUNNING = TRUE
  /\ pc = "test"
  /\ batch = <<>>
  /\ polled = 0
  /\ cpc = [c \in Ctx |-> "idle"]
  /\ data = [c \in Ctx |-> NoRecord]
  /\ event = [c \in Ctx |-> NoEtype]
  /\ ref = [c \in Ctx |-> NoObject]
  /\ tval = [c \in Ctx |-> 0]
  /\ estats = [connect_counter |-> "obj_connect", accept_counter |-> "obj_accept"]
  /\ m_value = [o \in Objects |-> 0]
  /\ m_lock = [o \in Objects |-> Free]
  /\ conn = 0
  /\ acpt = 0
  /\ out = <<>>
  /\ calls = [e \in ETypes |-> 0]
  /\ stop = "no"
  /\ FmtIdle

\* ----- signal_handler -----
\* what a signal arriving now is recorded as: a further signal changes
\* nothing
Found ==
  IF stop # "no" THEN stop
  ELSE IF pc = "poll" /\ batch # <<>> THEN "midpoll" ELSE "between"

\* signal_handler with `RUNNING = not RUNNING` in place of the assignment
signal_handler_toggle ==
  /\ pc # "done"
  /\ RUNNING' = ~RUNNING
  /\ stop' = Found
  /\ UNCHANGED <<mainVars, ctxVars, objVars, out, calls, fmtVars>>

\* RUNNING = False, whenever SIGINT arrives while the process is alive
signal_handler ==
  /\ pc # "done"
  /\ RUNNING' = FALSE
  /\ stop' = Found
  /\ UNCHANGED <<mainVars, ctxVars, objVars, out, calls, fmtVars>>

\* ----- the run loop -----
\* the loop test with `while True:`
LoopTest_forever ==
  /\ pc = "test"
  /\ pc' = "call"
  /\ UNCHANGED <<RUNNING, batch, polled, conn, acpt, ctxVars,
                 objVars, out, calls, stop, fmtVars>>

\* `while RUNNING:` the loop test
LoopTest ==
  /\ pc = "test"
  /\ pc' = IF RUNNING THEN "call" ELSE "get_accept"
  /\ UNCHANGED <<RUNNING, batch, polled, conn, acpt, ctxVars,
                 objVars, out, calls, stop, fmtVars>>

\* bpf.perf_buffer_poll(timeout=50) is entered: it takes what the buffer
\* holds, possibly nothing (the timeout then ends the call)
PollStart ==
  /\ pc = "call"
  /\ \E b \in SeqsUpTo(Records, MaxBatch) :
       /\ polled + Len(b) <= MaxRecords
       /\ batch' = b
       /\ polled' = polled + Len(b)
  /\ pc' = "poll"
  /\ UNCHANGED <<RUNNING, conn, acpt, ctxVars, objVars, out, calls,
                 stop, fmtVars>>

\* the poll call hands its next record to the callback in a delivery context
\* that is free (the contexts are interchangeable: the first free one)
Deliver(c) ==
  /\ pc = "poll"
  /\ batch # <<>>
  /\ cpc[c] = "idle"
  /\ \A d \in Ctx : d < c => cpc[d] # "idle"
  /\ data' = [data EXCEPT ![c] = Head(batch)]
  /\ batch' = Tail(batch)
  /\ cpc' = [cpc EXCEPT ![c] = "cast"]
  /\ UNCHANGED <<RUNNING, pc, polled, conn, acpt, event, ref, tval,
                 objVars, out, calls, stop, fmtVars>>

\* a poll call that gives up its pending records once RUNNING is false
PollReturn_abandon ==
  /\ pc = "poll"
  /\ \/ batch = <<>> /\ \A c \in Ctx : cpc[c] = "idle"
     \/ ~RUNNING
  /\ pc' = "test"
  /\ UNCHANGED <<RUNNING, batch, polled, conn, acpt, ctxVars,
                 objVars, out, calls, stop, fmtVars>>

\* the poll call returns when every record it took has been handled
PollReturn ==
  /\ pc = "poll"
  /\ batch = <<>>
  /\ \A c \in Ctx : cpc[c] = "idle"
  /\ pc' = "test"
  /\ UNCHANGED <<RUNNING, batch, polled, conn, acpt, ctxVars,
                 objVars, out, calls, stop, fmtVars>>

\* ----- print_ipv4_event, Events_Statics.add, AtomicInteger.__add__ -----
\* event = ct.cast(data, POINTER(kernel_data)).contents; estats.add(event)
\* tests e.etype == 601 and loads the counter attribute it will add to
Cast(c) ==
  /\ cpc[c] = "cast"
  /\ \E e \in CastEtypes(data[c]) :
       /\ event' = [event EXCEPT ![c] = e]
       /\ ref' = [ref EXCEPT ![c] = estats[add_attr(e)]]
       /\ calls' = [calls EXCEPT ![e] = @ + 1]
  /\ cpc' = [cpc EXCEPT ![c] = "lock"]
  /\ UNCHANGED <<RUNNING, mainVars, data, tval, objVars, out, stop, fmtVars>>

\* __add__ without mutual exclusion: the increment starts whoever holds the lock
AddLock_unguarded(c) ==
  /\ cpc[c] = "lock"
  /\ m_lock' = [m_lock EXCEPT ![ref[c]] = c]
  /\ cpc' = [cpc EXCEPT ![c] = "read"]
  /\ UNCHANGED <<RUNNING, mainVars, data, event, ref, tval, estats,
                 m_value, out, calls, stop, fmtVars>>

\* AtomicInteger.__add__: `with self.m_lock:` acquires the lock
AddLock(c) ==
  /\ cpc[c] = "lock"
  /\ m_lock[ref[c]] = Free
  /\ m_lock' = [m_lock EXCEPT ![ref[c]] = c]
  /\ cpc' = [cpc EXCEPT ![c] = "read"]
  /\ UNCHANGED <<RUNNING, mainVars, data, event, ref, tval, estats,
                 m_value, out, calls, stop, fmtVars>>

\* `self.m_value += t_v`: the read
AddRead(c) ==
  /\ cpc[c] = "read"
  /\ tval' = [tval EXCEPT ![c] = m_value[ref[c]]]
  /\ cpc' = [cpc EXCEPT ![c] = "write"]
  /\ UNCHANGED <<RUNNING, mainVars, data, event, ref, objVars, out,
                 calls, stop, fmtVars>>

\* the write with `self.m_value = self.m_value` (the increment forgotten)
AddWrite_same(c) ==
  /\ cpc[c] = "write"
  /\ m_value' = [m_value EXCEPT ![ref[c]] = tval[c]]
  /\ tval' = [tval EXCEPT ![c] = 0]
  /\ cpc' = [cpc EXCEPT ![c] = "unlock"]
  /\ UNCHANGED <<RUNNING, mainVars, data, event, ref, estats, m_lock,
                 out, calls, stop, fmtVars>>

\* `self.m_value += t_v`: the write, t_v = 1
AddWrite(c) ==
  /\ cpc[c] = "write"
  /\ m_value' = [m_value EXCEPT ![ref[c]] = tval[c] + 1]
  /\ tval' = [tval EXCEPT ![c] = 0]
  /\ cpc' = [cpc EXCEPT ![c] = "unlock"]
  /\ UNCHANGED <<RUNNING, mainVars, data, event, ref, estats, m_lock,
                 out, calls, stop, fmtVars>>

\* __add__ that returns without releasing the lock
AddUnlock_keep(c) ==
  /\ cpc[c] = "unlock"
  /\ cpc' = [cpc EXCEPT ![c] = "store"]
  /\ UNCHANGED <<RUNNING, mainVars, data, event, ref, tval, objVars,
                 out, calls, stop, fmtVars>>

\* `return self` leaves the with block: the lock is released
AddUnlock(c) ==
  /\ cpc[c] = "unlock"
  /\ m_lock' = [m_lock EXCEPT ![ref[c]] = IF @ = c THEN Free ELSE @]
  /\ cpc' = [cpc EXCEPT ![c] = "store"]
  /\ UNCHANGED <<RUNNING, mainVars, data, event, ref, tval, estats,
                 m_value, out, calls, stop, fmtVars>>

\* `self.<name> += 1` stores the object __add__ returned (self) back into
\* the attribute
AddStore(c) ==
  /\ cpc[c] = "store"
  /\ estats' = [estats EXCEPT ![add_attr(event[c])] = ref[c]]
  /\ ref' = [ref EXCEPT ![c] = NoObject]
  /\ cpc' = [cpc EXCEPT ![c] = "str"]
  /\ UNCHANGED <<RUNNING, mainVars, data, event, tval, m_value,
                 m_lock, out, calls, stop, fmtVars>>

\* str(event): etype2str raises KeyError for an etype outside the table; the
\* exception leaves the callback, which was called from C through ctypes:
\* it is reported on stderr and the poll call goes on
Str(c) ==
  /\ cpc[c] = "str"
  /\ IF etype2str_raises(event[c])
       THEN /\ cpc' = [cpc EXCEPT ![c] = "idle"]
            /\ data' = [data EXCEPT ![c] = NoRecord]
            /\ event' = [event EXCEPT ![c] = NoEtype]
       ELSE /\ cpc' = [cpc EXCEPT ![c] = "print"]
            /\ UNCHANGED <<data, event>>
  /\ UNCHANGED <<RUNNING, mainVars, ref, tval, objVars, out, calls,
                 stop, fmtVars>>

\* a callback that prints its block with one print call per line
PrintEvent_linewise(c) ==
  /\ cpc[c] = "print"
  /\ out' = Append(out, [kind |-> "event", label |-> etype2str(event[c]),
                         lines |-> <<BlockLines[tval[c] + 1]>>])
  /\ IF tval[c] + 1 = Len(BlockLines)
       THEN /\ cpc' = [cpc EXCEPT ![c] = "idle"]
            /\ data' = [data EXCEPT ![c] = NoRecord]
            /\ event' = [event EXCEPT ![c] = NoEtype]
            /\ tval' = [tval EXCEPT ![c] = 0]
       ELSE /\ tval' = [tval EXCEPT ![c] = @ + 1]
            /\ UNCHANGED <<cpc, data, event>>
  /\ UNCHANGED <<RUNNING, mainVars, ref, objVars, calls, stop, fmtVars>>

\* print(...) of the block str(event) built
PrintEvent(c) ==
  /\ cpc[c] = "print"
  /\ out' = Append(out, kernel_data_str(event[c]))
  /\ cpc' = [cpc EXCEPT ![c] = "idle"]
  /\ data' = [data EXCEPT ![c] = NoRecord]
  /\ event' = [event EXCEPT ![c] = NoEtype]
  /\ UNCHANGED <<RUNNING, mainVars, ref, tval, objVars, calls,
                 stop, fmtVars>>

print_ipv4_event(c) ==
  \/ Cast(c)
  \/ AddLock(c)
  \/ AddRead(c)
  \/ AddWrite(c)
  \/ AddUnlock(c)
  \/ AddStore(c)
  \/ Str(c)
  \/ PrintEvent(c)

\* ----- print('\r  \n' + str(estats)) -----
\* AtomicInteger.get: `with self.m_lock:`
GetLock(at, name, next) ==
  /\ pc = at
  /\ m_lock[estats[name]] = Free
  /\ m_lock' = [m_lock EXCEPT ![estats[name]] = Main]
  /\ pc' = next
  /\ UNCHANGED <<RUNNING, batch, polled, conn, acpt, ctxVars, estats,
                 m_value, out, calls, stop, fmtVars>>

\* a get that clears the counter it has read
GetAccept_reset ==
  /\ pc = "read_accept"
  /\ conn' = Value("accept_counter")
  /\ m_value' = [m_value EXCEPT ![estats["accept_counter"]] = 0]
  /\ m_lock' = [m_lock EXCEPT ![estats["accept_counter"]] = Free]
  /\ pc' = "get_connect"
  /\ UNCHANGED <<RUNNING, batch, polled, acpt, ctxVars, estats,
                 out, calls, stop, fmtVars>>

\* a get that returns with the lock still held
GetAccept_hold ==
  /\ pc = "read_accept"
  /\ conn' = Value("accept_counter")
  /\ pc' = "get_connect"
  /\ UNCHANGED <<RUNNING, batch, polled, acpt, ctxVars, objVars,
                 out, calls, stop, fmtVars>>

\* conn = self.accept_counter.get(): `return self.m_value`, lock released
GetAccept ==
  /\ pc = "read_accept"
  /\ conn' = Value("accept_counter")
  /\ m_lock' = [m_lock EXCEPT ![estats["accept_counter"]] = Free]
  /\ pc' = "get_connect"
  /\ UNCHANGED <<RUNNING, batch, polled, acpt, ctxVars, estats,
                 m_value, out, calls, stop, fmtVars>>

\* a get that takes the value out of the counter it reads
GetConnect_take ==
  /\ pc = "read_connect"
  /\ acpt' = Value("connect_counter")
  /\ m_value' = [m_value EXCEPT ![estats["connect_counter"]] = 0]
  /\ m_lock' = [m_lock EXCEPT ![estats["connect_counter"]] = Free]
  /\ pc' = "summary"
  /\ UNCHANGED <<RUNNING, batch, polled, conn, ctxVars, estats,
                 out, calls, stop, fmtVars>>

\* acpt = self.connect_counter.get(): `return self.m_value`, lock released
GetConnect ==
  /\ pc = "read_connect"
  /\ acpt' = Value("connect_counter")
  /\ m_lock' = [m_lock EXCEPT ![estats["connect_counter"]] = Free]
  /\ pc' = "summary"
  /\ UNCHANGED <<RUNNING, batch, polled, conn, ctxVars, estats,
                 m_value, out, calls, stop, fmtVars>>

\* the summary printed inside the loop: control returns to the loop test
PrintSummary_reenter ==
  /\ pc = "summary"
  /\ out' = Append(out, Events_Statics_str(conn, acpt))
  /\ pc' = "test"
  /\ UNCHANGED <<RUNNING, batch, polled, conn, acpt, ctxVars,
                 objVars, calls, stop, fmtVars>>

\* the formatted summary is printed and the process ends
PrintSummary ==
  /\ pc = "summary"
  /\ out' = Append(out, Events_Statics_str(conn, acpt))
  /\ pc' = "done"
  /\ UNCHANGED <<RUNNING, batch, polled, conn, acpt, ctxVars,
                 objVars, calls, stop, fmtVars>>

Summary ==
  \/ GetLock("get_accept", "accept_counter", "read_accept")
  \/ GetAccept
  \/ GetLock("get_connect", "connect_counter", "read_connect")
  \/ GetConnect
  \/ PrintSummary

Next ==
  \/ signal_handler
  \/ LoopTest
  \/ PollStart
  \/ PollReturn
  \/ \E c \in Ctx : Deliver(c)
  \/ \E c \in Ctx : print_ipv4_event(c)
  \/ Summary

Spec == Init /\ [][Next]_vars

\* a step of the program itself: any step but the arrival of a signal
Proceed ==
  \/ LoopTest
  \/ PollStart
  \/ PollReturn
  \/ \E c \in Ctx : Deliver(c)
  \/ \E c \in Ctx : print_ipv4_event(c)
  \/ Summary

\* The process keeps running while it has a step to take (a poll call
\* returns, a callback goes on); nothing forces a signal to arrive.
FairSpec == Spec /\ WF_vars(Proceed)

\* ----- str(estats) on its own: Events_Statics with counters of any value,
\* rendered MaxRenders times with no add call between -----
RenderInit ==
  /\ RUNNING = FALSE
  /\ pc = "get_accept"
  /\ batch = <<>>
  /\ polled = 0
  /\ cpc = [c \in Ctx |-> "idle"]
  /\ data = [c \in Ctx |-> NoRecord]
  /\ event = [c \in Ctx |-> NoEtype]
  /\ ref = [c \in Ctx |-> NoObject]
  /\ tval = [c \in Ctx |-> 0]
  /\ estats = [connect_counter |-> "obj_connect",
               accept_counter |-> "obj_accept"]
  /\ m_value \in [Objects -> 0..MaxCount]
  /\ m_lock = [o \in Objects |-> Free]
  /\ conn = 0
  /\ acpt = 0
  /\ out = <<>>
  /\ calls = [e \in ETypes |-> 0]
  /\ stop = "between"
  /\ FmtIdle

\* str(estats) called once more
RenderAgain ==
  /\ pc = "done"
  /\ Len(out) < MaxRenders
  /\ pc' = "get_accept"
  /\ UNCHANGED <<RUNNING, batch, polled, conn, acpt, ctxVars, objVars,
                 out, calls, stop, fmtVars>>

RenderNext == Summary \/ RenderAgain

RenderSpec == RenderInit /\ [][RenderNext]_vars

\* ----- the counters under contention: every delivery context runs the
\* callback on a record of its own while the main thread renders the
\* summary -----
LockInit ==
  /\ RUNNING = FALSE
  /\ pc = "get_accept"
  /\ batch = <<>>
  /\ polled = NumCtx
  /\ cpc = [c \in Ctx |-> "cast"]
  /\ data \in [Ctx -> [size : {SIZEOF_KERNEL_DATA},
                        etype : {ACCEPT, CONNECT}]]
  /\ event = [c \in Ctx |-> NoEtype]
  /\ ref = [c \in Ctx |-> NoObject]
  /\ tval = [c \in Ctx |-> 0]
  /\ estats = [connect_counter |-> "obj_connect",
               accept_counter |-> "obj_accept"]
  /\ m_value = [o \in Objects |-> 0]
  /\ m_lock = [o \in Objects |-> Free]
  /\ conn = 0
  /\ acpt = 0
  /\ out = <<>>
  /\ calls = [e \in ETypes |-> 0]
  /\ stop = "between"
  /\ FmtIdle

LockNext ==
  \/ \E c \in Ctx : print_ipv4_event(c)
  \/ Summary

\* fair scheduling: a thread that can take a step is not left out for ever
LockSpec ==
  /\ LockInit
  /\ [][LockNext]_vars
  /\ \A c \in Ctx : WF_vars(print_ipv4_event(c))
  /\ WF_vars(Summary)

\* ----- str(event) on its own: one kernel_data structure of any content,
\* either setting of --no-trunc -----
FmtInit ==
  /\ RUNNING = TRUE
  /\ pc = "test"
  /\ batch = <<>>
  /\ polled = 0
  /\ cpc = [c \in Ctx |-> "idle"]
  /\ data = [c \in Ctx |-> NoRecord]
  /\ event = [c \in Ctx |-> NoEtype]
  /\ ref = [c \in Ctx |-> NoObject]
  /\ tval = [c \in Ctx |-> 0]
  /\ estats = [connect_counter |-> "obj_connect",
               accept_counter |-> "obj_accept"]
  /\ m_value = [o \in Objects |-> 0]
  /\ m_lock = [o \in Objects |-> Free]
  /\ conn = 0
  /\ acpt = 0
  /\ out = <<>>
  /\ calls = [e \in ETypes |-> 0]
  /\ stop = "no"
  /\ NO_TRUNC \in BOOLEAN
  /\ fevent \in FmtEvents
  /\ ftext = <<>>

\* str(event) that shortens the cgroup field itself before showing it
Format_inplace ==
  /\ ftext = <<>>
  /\ fevent' = [fevent EXCEPT !.task.cgroup = dockerid(@, NO_TRUNC)]
  /\ ftext' = kernel_data_lines(fevent', NO_TRUNC)
  /\ UNCHANGED <<RUNNING, mainVars, ctxVars, objVars, out, calls, stop,
                 NO_TRUNC>>

\* str(event): __str__ reads the fields and returns the text
Format ==
  /\ ftext = <<>>
  /\ ftext' = kernel_data_lines(fevent, NO_TRUNC)
  /\ UNCHANGED <<RUNNING, mainVars, ctxVars, objVars, out, calls, stop,
                 NO_TRUNC, fevent>>

FmtNext == Format

FmtSpec == FmtInit /\ [][FmtNext]_vars

\* ----- what the claims speak of -----
Quiescent == \A c \in Ctx : cpc[c] = "idle"
NoAddInProgress == \A c \in Ctx : ~InAdd(c)
LoopExited ==
  pc \in {"get_accept", "read_accept", "get_connect", "read_connect",
          "summary", "done"}
Summaries == {i \in DOMAIN out : out[i].kind = "summary"}
EventBlocks == {i \in DOMAIN out : out[i].kind = "event"}
Printed(label) ==
  Cardinality({i \in EventBlocks : out[i].label = label})
Shown(i, k) == out[i].fields[k][2]
AcceptValue == Value("accept_counter")
ConnectValue == Value("connect_counter")

\* C1: once all add calls have completed, k of them with etype 601 and the
\* others with etype 602, the accept counter is k and the connect counter is
\* the number of 602 calls, whatever the interleaving of the contexts.
C1_NoLostUpdate ==
  (NoAddInProgress /\ calls[UNKNOWN] = 0) =>
    (AcceptValue = calls[ACCEPT] /\ ConnectValue = calls[CONNECT])

\* two contexts run the callback at the same time, both have completed an
\* add call on the accept counter, and no add call is in progress
C1_Witness ==
  /\ \E c, d \in Ctx :
       c # d /\ cpc[c] = "str" /\ cpc[d] = "str"
             /\ event[c] = ACCEPT /\ event[d] = ACCEPT
  /\ NoAddInProgress
  /\ calls[UNKNOWN] = 0
  /\ AcceptValue = 2

C3_SummaryState ==
  /\ Cardinality(Summaries) <= 1
  /\ Summaries # {} =>
       /\ pc = "done"
       /\ Summaries = {Len(out)}
       /\ batch = <<>>
       /\ Quiescent
  /\ pc = "done" => Cardinality(Summaries) = 1

C3_SummaryStep ==
  /\ pc = "done" => UNCHANGED vars
  /\ LoopExited => LoopExited'

\* C3: the summary is printed at most once, exactly once when the process
\* has stopped, only after the loop has exited with no poll call in flight,
\* it is the last thing printed, and nothing happens after Stopped: the loop
\* is never entered again.
C3_SummaryOnce == []C3_SummaryState /\ [][C3_SummaryStep]_vars

\* the process has stopped after printing events and then the summary
C3_Witness ==
  /\ pc = "done"
  /\ Len(out) >= 3
  /\ out[Len(out)].kind = "summary"

\* a step of signal_handler for the first signal: the only step that
\* records one
SignalStep == stop = "no" /\ stop' # "no"

C4_RunningStep ==
  /\ RUNNING' # RUNNING => (RUNNING /\ ~RUNNING' /\ SignalStep)
  /\ ~RUNNING => ~RUNNING'

\* C4: RUNNING starts true; only signal_handler writes it, and only to
\* false; once false it stays false, however often the signal is delivered.
C4_RunningSetOnce == (RUNNING = TRUE) /\ [][C4_RunningStep]_vars

\* RUNNING is false and the handler can run again: a poll call is in flight
\* with records pending when a further signal arrives
C4_Witness ==
  /\ ~RUNNING
  /\ stop = "midpoll"
  /\ pc = "poll"
  /\ batch # <<>>
  /\ ENABLED signal_handler

\* C5: with every poll call returning and the threads scheduled fairly,
\* once RUNNING is false the loop exits and the process reaches Stopped with
\* the summary printed.
C5_StopLeadsToStopped == (~RUNNING) ~> (pc = "done" /\ Summaries # {})

\* stopped after a signal that found the loop inside a poll call
C5_Witness ==
  stop = "midpoll" /\ ~RUNNING /\ pc = "done" /\ Summaries # {} /\ polled >= 2

\* a step of the callback that context c runs
CallbackStep(c) == cpc'[c] # cpc[c]
CountersUnchanged == AcceptValue' = AcceptValue /\ ConnectValue' = ConnectValue

\* the steps of a callback whose record has an etype outside the table
C6_UnknownStep ==
  \A c \in Ctx :
    (/\ data[c].size = SIZEOF_KERNEL_DATA
     /\ data[c].etype \notin {ACCEPT, CONNECT}
     /\ CallbackStep(c))
      => (CountersUnchanged /\ out' = out)

\* C6: a record of the right size whose etype is neither 601 nor 602 is
\* dropped: no step of its callback changes a counter or the output.
C6_UnknownEtypeDropped == [][C6_UnknownStep]_vars

\* the steps of a callback whose record is not of the size of kernel_data
C7_MismatchStep ==
  \A c \in Ctx :
    (/\ data[c] # NoRecord
     /\ data[c].size # SIZEOF_KERNEL_DATA
     /\ CallbackStep(c))
      => (CountersUnchanged /\ out' = out)

\* C7: a raw record whose size is not the size of kernel_data is dropped: no
\* step of its callback changes a counter or the output.
C7_SizeMismatchDropped == [][C7_MismatchStep]_vars

\* the increment of an add call and what it does to the two counters
AddIncrement(c) == cpc[c] = "write" /\ cpc'[c] = "unlock"
AddEffect(c) ==
  IF event[c] = ACCEPT
    THEN AcceptValue' = AcceptValue + 1 /\ ConnectValue' = ConnectValue
    ELSE ConnectValue' = ConnectValue + 1 /\ AcceptValue' = AcceptValue

C8_AddStep ==
  /\ \A c \in Ctx : AddIncrement(c) => AddEffect(c)
  /\ ~CountersUnchanged => \E c \in Ctx : AddIncrement(c)
  /\ \A c \in Ctx : (InAdd(c) /\ CallbackStep(c) /\ ~AddIncrement(c))
                      => CountersUnchanged

\* C8: an add call changes exactly one counter by exactly +1, the accept
\* counter when e.etype = 601 and the connect counter otherwise, and leaves
\* the other counter as it is; no other step changes a counter.
C8_AddChangesOneCounter == [][C8_AddStep]_vars

\* add calls of both kinds have completed
C8_Witness ==
  /\ NoAddInProgress
  /\ calls[ACCEPT] = 1
  /\ calls[CONNECT] + calls[UNKNOWN] = 1
  /\ AcceptValue = 1
  /\ ConnectValue = 1

\* no counter value goes down in a step
C9_CounterStep ==
  /\ AcceptValue' >= AcceptValue
  /\ ConnectValue' >= ConnectValue

\* C9: both counters start at 0 and no step (add, summary rendering, signal
\* handling, loop step) ever decreases or resets either of them.
C9_CountersMonotonic ==
  (AcceptValue = 0 /\ ConnectValue = 0) /\ [][C9_CounterStep]_vars

\* the summary has been rendered and the counters still hold their counts
C9_Witness ==
  /\ pc = "done"
  /\ stop # "no"
  /\ AcceptValue >= 1
  /\ ConnectValue >= 1

\* C10: the summary shows, in this order, the total, the accept count and
\* the connect count: after 'tot:' the sum of the two counters, after
\* 'accpt:' the accept counter, after 'conn:' the connect counter.
C10_SummaryShowsCounters ==
  \A i \in Summaries :
    out[i].fields = << <<"tot", AcceptValue + ConnectValue>>,
                       <<"accpt", AcceptValue>>,
                       <<"conn", ConnectValue>> >>

\* a summary has been printed with an accept count that differs from the
\* connect count
C10_Witness ==
  /\ Summaries # {}
  /\ AcceptValue # ConnectValue
  /\ AcceptValue + ConnectValue = MaxRecords

\* the lines of one write to stdout, each with the block it belongs to
LinesOf(b) ==
  IF b.kind = "event"
    THEN [i \in 1..Len(b.lines) |-> <<b.label, b.lines[i]>>]
    ELSE << <<"summary", "summary">> >>

\* stdout as the sequence of lines the writes so far have put on it
RECURSIVE Stream(_)
Stream(o) == IF o = <<>> THEN <<>> ELSE LinesOf(Head(o)) \o Stream(Tail(o))

\* a stream of lines that is a sequence of whole blocks
RECURSIVE WholeBlocks(_)
WholeBlocks(s) ==
  IF s = <<>> THEN TRUE
  ELSE IF s[1][2] = "summary" THEN WholeBlocks(Tail(s))
  ELSE /\ Len(s) >= Len(BlockLines)
       /\ \A k \in 1..Len(BlockLines) :
            s[k][1] = s[1][1] /\ s[k][2] = BlockLines[k]
       /\ WholeBlocks(SubSeq(s, Len(BlockLines) + 1, Len(s)))

\* C14: with print_ipv4_event running concurrently, the block of each event
\* is built completely by str(event) and written by one print call: every
\* write of an event is a whole block, and stdout is at all times a sequence
\* of whole blocks, the lines of one never between the lines of another.
C14_BlocksNotInterleaved ==
  /\ \A i \in EventBlocks : out[i].lines = BlockLines
  /\ WholeBlocks(Stream(out))

\* a block is on stdout while a second context, which got its record when
\* the first was busy, holds the block it has built and not yet printed
C14_Witness ==
  /\ \E c \in Ctx : c > 1 /\ cpc[c] = "print"
  /\ EventBlocks # {}

\* str(fevent) has returned
Formatted == ftext # <<>>
Cgroup == fevent.task.cgroup

\* C12: the formatted block of an event has the container line if and only
\* if the task's cgroup is not the root sentinel "/": for cgroup "/" the
\* text is exactly the three lines task, parent, netinfo, for any other
\* cgroup a fourth line, the container line, follows them.
C12_ContainerLineIffNotRoot ==
  Formatted =>
    /\ Len(ftext) \in {3, 4}
    /\ ftext[1].fmt = "_ltask"
    /\ ftext[2].fmt = "_lparent"
    /\ ftext[3].fmt = "_lnetinfo"
    /\ Len(ftext) = 4 <=> Cgroup # ROOT
    /\ Len(ftext) = 4 => ftext[4].fmt = "_lcgroup"

\* an accept event of a task in the root cgroup has been formatted
C12_Witness ==
  /\ Formatted
  /\ Cgroup = ROOT
  /\ fevent.etype = ACCEPT
  /\ Len(ftext) = 3

\* the ports the netinfo line shows
ShownLocPort == ftext[3].args[3]
ShownDstPort == ftext[3].args[5]

\* C13: the ports shown in the netinfo line are the values of the fields
\* converted from network to host byte order (the two bytes swapped on a
\* little-endian host): a loc_port field holding the network-order encoding
\* of port 8080 is shown as 8080.
C13_PortsHostOrder ==
  Formatted =>
    /\ ShownLocPort = ntohs(fevent.net4.loc_port)
    /\ ShownDstPort = ntohs(fevent.net4.dst_port)

\* C17: truncation of the container identifier is a view: the container
\* line shows the whole cgroup when NO_TRUNC is set and exactly its first 12
\* bytes otherwise, and formatting leaves the cgroup field and every other
\* field of the event as it was.
C17_TruncationIsView ==
  /\ [](Formatted /\ Cgroup # ROOT =>
          LET shown == ftext[4].args[1] IN
            /\ \A i \in 1..Len(shown) : shown[i] = Cgroup[i]
            /\ NO_TRUNC => Len(shown) = Len(Cgroup)
            /\ ~NO_TRUNC /\ Len(Cgroup) >= 12 => Len(shown) = 12
            /\ ~NO_TRUNC /\ Len(Cgroup) < 12 => Len(shown) = Len(Cgroup))
  /\ [][fevent' = fevent]_vars

\* the 16 character cgroup has been formatted with truncation on: 12
\* characters are shown, 16 are still stored
C17_Witness ==
  /\ Formatted
  /\ ~NO_TRUNC
  /\ Cgroup = ID16
  /\ Len(ftext[4].args[1]) = 12
  /\ fevent.etype = CONNECT

\* a step of str(estats) or get leaves both counters as they are
C11_RenderStep == m_value' = m_value /\ estats' = estats

\* C11: rendering the statistics (__str__, and the get calls it makes) does
\* not modify the counters, and two renderings with no add call between
\* them give identical values.
C11_RenderReadOnly ==
  /\ [](\A i, j \in Summaries : out[i] = out[j])
  /\ [][C11_RenderStep]_vars

\* two renderings of counters that are not zero and differ from each other
C11_Witness ==
  /\ Cardinality(Summaries) = 2
  /\ AcceptValue = 2
  /\ ConnectValue = 1
  /\ Shown(1, 1) = 3

\* the counter locks a thread holds (a delivery context, or Main)
Held(h) == {o \in Objects : m_lock[o] = h}

\* C15: a counter lock is held only for the read-modify-write of the
\* increment or for the single read of get: a context that is idle, casting
\* the record, about to take the lock, storing the attribute, formatting or
\* printing holds no lock, and neither does the main thread while it tests
\* RUNNING, polls or prints the summary.
C15_LockScope ==
  /\ \A c \in Ctx :
       cpc[c] \in {"idle", "cast", "lock", "store", "str", "print"}
         => Held(c) = {}
  /\ \A c \in Ctx :
       cpc[c] \in {"read", "write", "unlock"} => Held(c) = {ref[c]}
  /\ pc \in {"test", "call", "poll", "get_accept", "get_connect",
             "summary", "done"} => Held(Main) = {}
  /\ pc = "read_accept" => Held(Main) = {estats["accept_counter"]}
  /\ pc = "read_connect" => Held(Main) = {estats["connect_counter"]}

\* one context holds a counter lock in its increment while another one, past
\* its own increment, is printing
C15_Witness ==
  \E c, d \in Ctx :
    /\ cpc[c] = "write"
    /\ Held(c) # {}
    /\ cpc[d] = "print"
    /\ pc = "poll"

\* the steps of the run loop around a poll call
C16_LoopStep ==
  /\ (~RUNNING /\ pc' = "call") => pc = "call"
  /\ (~RUNNING /\ pc = "test" /\ pc' # pc) => pc' = "get_accept"
  /\ (pc = "poll" /\ pc' # pc) => (pc' = "test" /\ batch = <<>> /\ Quiescent)
  /\ (pc = "call" /\ pc' # pc) => pc' = "poll"

\* C16: RUNNING is read only by the loop test between poll calls: a poll
\* call in progress is never abandoned (it ends only with all its records
\* handled), after RUNNING has become false no loop test passes any more, so
\* the only poll call still started is the one whose test had passed, and
\* the first test made after the flag was set leaves the loop.
C16_StopBetweenPolls == [][C16_LoopStep]_vars

\* the flag was set between the loop test and the poll call; that poll call
\* has started and holds records
C16_Witness ==
  /\ ~RUNNING
  /\ stop = "between"
  /\ pc = "poll"
  /\ batch # <<>>

\* C18: an event is counted before it is printed: in every state the number
\* of event blocks printed is at most accept_counter + connect_counter, and
\* the total a summary shows covers every event block printed.
C18_CountedBeforePrinted ==
  /\ Cardinality(EventBlocks) <= AcceptValue + ConnectValue
  /\ \A i \in Summaries : Cardinality(EventBlocks) <= Shown(i, 1)

\* an event has been counted and its block is not printed yet
C18_Witness ==
  /\ \E c \in Ctx : cpc[c] = "print"
  /\ Cardinality(EventBlocks) = 1
  /\ AcceptValue + ConnectValue = 2

\* the records handed to the callback so far
Delivered == polled - Len(batch)
NoCallbackBeforeCount == \A c \in Ctx : cpc[c] # "cast" /\ ~InAdd(c)

Threads == Ctx \cup {Main}
Waiting(h) ==
  IF h = Main THEN pc \in {"get_accept", "get_connect"} ELSE cpc[h] = "lock"

\* C20: the counter locks cannot deadlock: no thread holds one lock while it
\* acquires another, every lock acquired is released, and under fair
\* scheduling every thread waiting for a lock gets it, also when add calls
\* run concurrently with the rendering of the summary.
C20_NoDeadlock ==
  /\ [](\A h \in Threads :
          Cardinality(Held(h)) <= 1 /\ (Waiting(h) => Held(h) = {}))
  /\ \A o \in Objects : (m_lock[o] # Free) ~> (m_lock[o] = Free)
  /\ \A c \in Ctx : (cpc[c] = "lock") ~> (cpc[c] = "read" /\ Held(c) = {ref[c]})
  /\ (pc = "get_accept") ~> (pc = "read_accept")
  /\ (pc = "get_connect") ~> (pc = "read_connect")

\* an add call waits for the lock the summary rendering holds, and another
\* add call is inside its increment on the other counter
C20_Witness ==
  \E c, d \in Ctx :
    /\ cpc[c] = "lock"
    /\ m_lock[ref[c]] = Main
    /\ cpc[d] \in {"read", "write"}

====
